---- MODULE Spec2Model ----
(***************************************************************************)
(* Model of the Mammut client (src/src/lib.rs): the Mastodon struct, its   *)
(* constructors, the request kernel generated by methods!, and the         *)
(* endpoint surface generated by route! / route_id! plus the hand-written  *)
(* endpoint functions.  Strings are TLA+ strings; characters are strings   *)
(* of length one obtained with SubSeq.                                     *)
(***************************************************************************)
EXTENDS Integers, Sequences, FiniteSets, TLC

VARIABLES client, givenToken, pc, op, args, request, response, result

vars == <<client, givenToken, pc, op, args, request, response, result>>

----------------------------------------------------------------------------
(* Bounds of the model *)

\* longest free-text input (search query, hashtag)
MaxLen == 2
\* longest id list passed to relationships
MaxIds == 2

----------------------------------------------------------------------------
(* Input domains *)

\* characters of free-text inputs: an unreserved one and the query delimiter
Alphabet == {"a", "&"}

RECURSIVE Strs(_)
Strs(n) == IF n = 0 THEN {""}
           ELSE LET shorter == Strs(n - 1)
                IN  shorter \cup {s \o c : s \in shorter, c \in Alphabet}

Texts == Strs(MaxLen)

\* absolute origins in normalised form, and one string that is not a URL
Bases == {"https://example.social", "http://localhost:3000", "example.social"}

Tokens == {"", "tok", "tok2"}

IdValues == {3, 4, 7}

IdLists == UNION {[1..n -> {3, 4}] : n \in 0..MaxIds}

\* Option<T>; None of an integer type and None of a string type
None == [some |-> FALSE, v |-> 0]
NoneStr == [some |-> FALSE, v |-> ""]
Some(x) == [some |-> TRUE, v |-> x]

SinceValues == {None, Some(42), Some(-1)}

----------------------------------------------------------------------------
(* String helpers *)

Char(s, i) == SubSeq(s, i, i)

LastChar(s) == IF Len(s) = 0 THEN "" ELSE Char(s, Len(s))

StartsWith(s, p) == Len(s) >= Len(p) /\ SubSeq(s, 1, Len(p)) = p

EndsWith(s, p) == Len(s) >= Len(p) /\ SubSeq(s, Len(s) - Len(p) + 1, Len(s)) = p

Contains(s, p) == \E i \in 1..(Len(s) - Len(p) + 1) : SubSeq(s, i, i + Len(p) - 1) = p

\* number of (possibly overlapping) occurrences of p in s
Occurrences(s, p) ==
    Cardinality({i \in 1..(Len(s) - Len(p) + 1) : SubSeq(s, i, i + Len(p) - 1) = p})

----------------------------------------------------------------------------
(* std / url library operations used by lib.rs *)

\* String::pop left out: the string keeps its last character
StringPop_Kept(s) == s

\* String::pop: removes the last character, if any
StringPop(s) == IF Len(s) = 0 THEN s ELSE SubSeq(s, 1, Len(s) - 1)

\* format!(tpl, a) for a template with one "{}" placeholder
RECURSIVE Format(_, _)
Format(tpl, a) ==
    IF Len(tpl) < 2 THEN tpl
    ELSE IF SubSeq(tpl, 1, 2) = "{}" THEN a \o SubSeq(tpl, 3, Len(tpl))
    ELSE Char(tpl, 1) \o Format(Tail(tpl), a)

\* application/x-www-form-urlencoded byte serialisation of one character
FormEncodeChar(c) ==
    CASE c = " " -> "+"
      [] c = "&" -> "%26"
      [] c = "=" -> "%3D"
      [] c = "?" -> "%3F"
      [] c = "#" -> "%23"
      [] c = "/" -> "%2F"
      [] c = "[" -> "%5B"
      [] c = "]" -> "%5D"
      [] OTHER   -> c

RECURSIVE FormUrlEncode(_)
FormUrlEncode(s) ==
    IF Len(s) = 0 THEN "" ELSE FormEncodeChar(Char(s, 1)) \o FormUrlEncode(Tail(s))

\* name=value pairs joined with '&'
RECURSIVE SerializePairs(_)
SerializePairs(params) ==
    IF Len(params) = 0 THEN ""
    ELSE FormUrlEncode(params[1][1]) \o "=" \o FormUrlEncode(params[1][2])
         \o (IF Len(params) = 1 THEN "" ELSE "&" \o SerializePairs(Tail(params)))

\* Url::parse accepts only absolute URLs
IsAbsoluteUrl(s) == StartsWith(s, "https://") \/ StartsWith(s, "http://")

----------------------------------------------------------------------------
(* JSON response bodies *)

\* bytes that are not JSON at all
Garbage == [t |-> "garbage", v |-> 0]
JNull == [t |-> "null", v |-> 0]
JStr(s) == [t |-> "str", v |-> s]
JNum(n) == [t |-> "num", v |-> n]
\* f: a function from member names to JSON values
JObj(f) == [t |-> "obj", v |-> f]
\* e: a sequence of JSON values
JArr(e) == [t |-> "arr", v |-> e]

\* s with every member of u added or replaced
Merge(s, u) == [k \in DOMAIN s \cup DOMAIN u |-> IF k \in DOMAIN u THEN u[k] ELSE s[k]]

ErrorBody == JObj([error |-> JStr("Record not found")])
ErrorDescBody ==
    JObj([error |-> JStr("invalid_grant"), error_description |-> JStr("expired")])
ReportBody == JObj([id |-> JNum(1), action_taken |-> JStr("false")])
CardBody ==
    JObj([url |-> JStr("u"), title |-> JStr("t"), description |-> JStr("d"),
          image |-> JNull])

Bodies ==
    << Garbage,
      JNull,
      JObj(<<>>),
      ErrorBody,
      ErrorDescBody,
      JObj([error |-> JNull]),
      JObj([error |-> JStr("e"), error_description |-> JNum(1)]),
      ReportBody,
      JObj(Merge(ReportBody.v, ErrorBody.v)),
      CardBody,
      JArr(<<>>),
      JArr(<<JStr("Record not found"), JNull>>),
      JArr(<<ReportBody>>),
      JArr(<<ReportBody, ErrorBody>>) >>

\* outcome of a decode: the value, or the decode error's message
DecOk(x) == [ok |-> TRUE, v |-> x]
DecErr(msg) == [ok |-> FALSE, v |-> msg]

SyntaxError == "expected value at line 1 column 1"

TypeName(b) ==
    CASE b.t = "null" -> "null"
      [] b.t = "str"  -> "string"
      [] b.t = "num"  -> "integer"
      [] b.t = "obj"  -> "map"
      [] b.t = "arr"  -> "sequence"
      [] OTHER        -> "unit"

\* #[derive(Deserialize)] struct ApiError { error: String, error_description: Option<String> }
ApiErrorFromMap(f) ==
    IF "error" \in DOMAIN f /\ f["error"].t # "str"
    THEN DecErr("invalid type: " \o TypeName(f["error"]) \o ", expected a string")
    ELSE IF "error_description" \in DOMAIN f
            /\ f["error_description"].t \notin {"str", "null"}
    THEN DecErr("invalid type: " \o TypeName(f["error_description"])
                \o ", expected a string")
    ELSE IF "error" \notin DOMAIN f
    THEN DecErr("missing field 'error'")
    ELSE DecOk([error |-> f["error"].v,
                error_description |->
                    IF "error_description" \in DOMAIN f
                       /\ f["error_description"].t = "str"
                    THEN Some(f["error_description"].v)
                    ELSE NoneStr])

\* a derived struct also decodes from an array holding its fields in order
ApiErrorFromSeq(e) ==
    IF Len(e) = 0
    THEN DecErr("invalid length 0, expected struct ApiError with 2 elements")
    ELSE IF e[1].t # "str"
    THEN DecErr("invalid type: " \o TypeName(e[1]) \o ", expected a string")
    ELSE IF Len(e) = 1
    THEN DecErr("invalid length 1, expected struct ApiError with 2 elements")
    ELSE IF e[2].t \notin {"str", "null"}
    THEN DecErr("invalid type: " \o TypeName(e[2]) \o ", expected a string")
    ELSE IF Len(e) > 2
    THEN DecErr("trailing characters")
    ELSE DecOk([error |-> e[1].v,
                error_description |-> IF e[2].t = "str" THEN Some(e[2].v) ELSE NoneStr])

DecodeApiError(b) ==
    CASE b.t = "garbage" -> DecErr(SyntaxError)
      [] b.t = "obj"     -> ApiErrorFromMap(b.v)
      [] b.t = "arr"     -> ApiErrorFromSeq(b.v)
      [] OTHER           -> DecErr("invalid type: " \o TypeName(b)
                                   \o ", expected struct ApiError")

----------------------------------------------------------------------------
(* Entities (module entities): required members in declaration order and   *)
(* optional members.  Unknown members are ignored.                         *)

EntityRequired(name) ==
    CASE name = "Empty"        -> <<>>
      [] name = "Account"      -> <<"id", "username", "acct", "display_name", "note",
                                    "url", "avatar", "header", "locked", "created_at",
                                    "followers_count", "following_count",
                                    "statuses_count">>
      [] name = "Status"       -> <<"id", "uri", "url", "account", "content",
                                    "created_at", "reblogs_count", "favourites_count",
                                    "sensitive", "spoiler_text", "visibility",
                                    "media_attachments", "mentions", "tags">>
      [] name = "Notification" -> <<"id", "type", "created_at", "account">>
      [] name = "Relationship" -> <<"id", "following", "followed_by", "blocking",
                                    "muting", "requested">>
      [] name = "Attachment"   -> <<"id", "type", "url", "preview_url">>
      [] name = "Context"      -> <<"ancestors", "descendants">>
      [] name = "Card"         -> <<"url", "title", "description">>
      [] name = "Report"       -> <<"id", "action_taken">>
      [] name = "Instance"     -> <<"uri", "title", "description", "email", "version">>
      [] name = "SearchResult" -> <<"accounts", "statuses", "hashtags">>

EntityOptional(name) ==
    CASE name = "Account"      -> {"source"}
      [] name = "Status"       -> {"in_reply_to_id", "in_reply_to_account_id", "reblog",
                                   "reblogged", "favourited", "muted", "application",
                                   "language"}
      [] name = "Notification" -> {"status"}
      [] name = "Attachment"   -> {"remote_url", "text_url"}
      [] name = "Card"         -> {"image"}
      [] OTHER                 -> {}

Range(s) == {s[i] : i \in DOMAIN s}

DecodeStruct(name, b) ==
    IF b.t = "garbage" THEN DecErr(SyntaxError)
    ELSE IF b.t # "obj"
    THEN DecErr("invalid type: " \o TypeName(b) \o ", expected struct " \o name)
    ELSE LET req == EntityRequired(name)
             missing == {i \in DOMAIN req : req[i] \notin DOMAIN b.v}
             known == (Range(req) \cup EntityOptional(name)) \cap DOMAIN b.v
         IN  IF missing # {}
             THEN DecErr("missing field '"
                         \o req[CHOOSE i \in missing : \A j \in missing : i <= j]
                         \o "'")
             ELSE DecOk([entity |-> name, fields |-> [k \in known |-> b.v[k]]])

\* a return type: an entity or a Vec of an entity
Ty(name) == [vec |-> FALSE, name |-> name]
VecOf(name) == [vec |-> TRUE, name |-> name]

DecodeEntity(ty, b) ==
    IF ~ty.vec THEN DecodeStruct(ty.name, b)
    ELSE IF b.t = "garbage" THEN DecErr(SyntaxError)
    ELSE IF b.t # "arr"
    THEN DecErr("invalid type: " \o TypeName(b) \o ", expected a sequence")
    ELSE LET bad == {i \in DOMAIN b.v : ~DecodeStruct(ty.name, b.v[i]).ok}
         IN  IF bad # {}
             THEN DecodeStruct(ty.name, b.v[CHOOSE i \in bad : \A j \in bad : i <= j])
             ELSE DecOk([i \in DOMAIN b.v |-> DecodeStruct(ty.name, b.v[i]).v])

----------------------------------------------------------------------------
(* Result<T> and Error *)

Ok(x) == [tag |-> "Ok", v |-> x]
Err(e) == [tag |-> "Err", v |-> e]

Api(e) == [kind |-> "Api", detail |-> e]
Serde(msg) == [kind |-> "Serde", detail |-> msg]
Http(msg) == [kind |-> "Http", detail |-> msg]
Io(msg) == [kind |-> "Io", detail |-> msg]
UrlError(msg) == [kind |-> "Url", detail |-> msg]
AccessTokenRequired == [kind |-> "AccessTokenRequired", detail |-> ""]

----------------------------------------------------------------------------
(* Headers and requests *)

HeadersNew == <<>>

\* Headers::set replaces any header of the same name
HeadersSet(h, name, value) ==
    SelectSeq(h, LAMBDA x : x.name # name) \o <<[name |-> name, value |-> value]>>

\* Authorization(Bearer { token })
AuthorizationBearer(token) == "Bearer " \o token

\* RequestBuilder::headers: every header of hs is set on h
RECURSIVE HeadersExtend(_, _)
HeadersExtend(h, hs) ==
    IF Len(hs) = 0 THEN h
    ELSE HeadersExtend(HeadersSet(h, hs[1].name, hs[1].value), Tail(hs))

NoBody == [kind |-> "none", data |-> <<>>]

\* RequestBuilder::form / RequestBuilder::json
FormBody(form_data) == [kind |-> "form", data |-> form_data]
JsonBody(value) == [kind |-> "json", data |-> value]

ContentType(body) ==
    CASE body.kind = "form" -> "application/x-www-form-urlencoded"
      [] body.kind = "json" -> "application/json"
      [] OTHER              -> ""

\* a request built without .headers(self.headers.clone())
BuildRequest_NoHeaders(method, url, headers, body) ==
    [method |-> method, url |-> url,
     headers |-> IF body.kind = "none" THEN HeadersNew
                 ELSE HeadersSet(HeadersNew, "Content-Type", ContentType(body)),
     body |-> body]

BuildRequest(method, url, headers, body) ==
    [method |-> method, url |-> url,
     headers |-> IF body.kind = "none" THEN HeadersExtend(HeadersNew, headers)
                 ELSE HeadersSet(HeadersExtend(HeadersNew, headers),
                                 "Content-Type", ContentType(body)),
     body |-> body]

NoRequest == [method |-> "", url |-> "", headers |-> <<>>, body |-> NoBody]

\* what the transport does with a request
Response(i) ==
    IF i = 0 THEN [t |-> "sendfail", b |-> Garbage]
    ELSE IF i = -1 THEN [t |-> "readfail", b |-> Garbage]
    ELSE [t |-> "body", b |-> Bodies[i]]

Responses == (-1) .. Len(Bodies)

NoResponse == [t |-> "", b |-> Garbage]

----------------------------------------------------------------------------
(* Mastodon *)

DataValues ==
    [base : Bases, client_id : {"ci"}, client_secret : {"cs"},
     redirect : {"urn:ietf:wg:oauth:2.0:oob"}, token : Tokens]

NoData == [base |-> "", client_id |-> "", client_secret |-> "", redirect |-> "",
           token |-> ""]

NoClient == [built |-> FALSE, headers |-> HeadersNew, data |-> NoData]

\* Mastodon::route
route(self, url) == self.data.base \o url

\* send()? and read_to_end()?: the error returned early, or the body read.
\* A URL that does not parse is reported by send() and nothing is sent.
SendAndRead(req, resp) ==
    IF ~IsAbsoluteUrl(req.url)
    THEN [request |-> NoRequest, failed |-> TRUE,
          result |-> Err(Http("relative URL without a base"))]
    ELSE IF resp.t = "sendfail"
    THEN [request |-> req, failed |-> TRUE, result |-> Err(Http("send"))]
    ELSE IF resp.t = "readfail"
    THEN [request |-> req, failed |-> TRUE, result |-> Err(Io("read_to_end"))]
    ELSE [request |-> req, failed |-> FALSE, result |-> Ok(resp.b)]

\* the two decodes in the opposite order: ApiError first
MethodsDecode_ApiErrorFirst(ty, vec) ==
    LET e == DecodeApiError(vec)
    IN  IF e.ok THEN Err(Api(e.v))
        ELSE LET t == DecodeEntity(ty, vec)
             IN  IF t.ok THEN Ok(t.v) ELSE Err(Serde(t.v))

\* no fallback decode: a failed entity decode is returned as it is
MethodsDecode_NoFallback(ty, vec) ==
    LET t == DecodeEntity(ty, vec)
    IN  IF t.ok THEN Ok(t.v) ELSE Err(Serde(t.v))

\* methods!: if let Ok(t) = from_slice(&vec) { Ok(t) } else { Err(Api(from_slice(&vec)?)) }
MethodsDecode(ty, vec) ==
    LET t == DecodeEntity(ty, vec)
    IN  IF t.ok THEN Ok(t.v)
        ELSE LET e == DecodeApiError(vec)
             IN  IF e.ok THEN Err(Api(e.v)) ELSE Err(Serde(e.v))

\* the same decode in the post arm of route!
RoutePostDecode(ty, vec) ==
    LET t == DecodeEntity(ty, vec)
    IN  IF t.ok THEN Ok(t.v)
        ELSE LET e == DecodeApiError(vec)
             IN  IF e.ok THEN Err(Api(e.v)) ELSE Err(Serde(e.v))

\* the same decode in new_status
NewStatusDecode(vec) ==
    LET t == DecodeEntity(Ty("Status"), vec)
    IN  IF t.ok THEN Ok(t.v)
        ELSE LET e == DecodeApiError(vec)
             IN  IF e.ok THEN Err(Api(e.v)) ELSE Err(Serde(e.v))

\* fn $method(&self, url) of methods![get, post, delete,]
Methods(self, method, url, ty, resp) ==
    LET r == SendAndRead(BuildRequest(method, url, self.headers, NoBody), resp)
    IN  [request |-> r.request,
         result |-> IF r.failed THEN r.result ELSE MethodsDecode(ty, r.result.v)]

----------------------------------------------------------------------------
(* Endpoint tables *)

R(name, method, url, ret) == [name |-> name, method |-> method, url |-> url, ret |-> ret]

\* route! entries handled by the ($method:ident) arm
RouteTable ==
    { R("verify", "get", "accounts/verify_credentials", Ty("Account")),
      R("blocks", "get", "blocks", VecOf("Account")),
      R("follow_requests", "get", "follow_requests", VecOf("Account")),
      R("mutes", "get", "mutes", VecOf("Account")),
      R("notifications", "get", "notifications", VecOf("Notification")),
      R("reports", "get", "reports", VecOf("Report")),
      R("get_home_timeline", "get", "timelines/home", VecOf("Status")),
      R("clear_notifications", "post", "notifications/clear", Ty("Empty")) }

P(name, params, url, ret) == [name |-> name, params |-> params, url |-> url, ret |-> ret]

\* route! entries handled by the (post (...)) arm
RoutePostTable ==
    { P("allow_follow_request", <<"id">>, "accounts/follow_requests/authorize",
        Ty("Empty")),
      P("reject_follow_request", <<"id">>, "accounts/follow_requests/reject",
        Ty("Empty")),
      P("follows", <<"uri">>, "follows", Ty("Account")),
      P("media", <<"file">>, "media", Ty("Attachment")),
      P("report", <<"account_id", "status_ids", "comment">>, "reports", Ty("Report")),
      P("search", <<"q", "resolve">>, "search", Ty("SearchResult")) }

\* argument values tried for each (post (...)) entry
PostInputs(name) ==
    CASE name \in {"allow_follow_request", "reject_follow_request"} ->
            {[id |-> i] : i \in IdValues}
      [] name = "follows" -> {[uri |-> "a"]}
      [] name = "media"   -> {[file |-> <<>>], [file |-> <<1>>]}
      [] name = "report"  ->
            [account_id : {7}, status_ids : {<<>>, <<3, 4>>}, comment : {"a"}]
      [] name = "search"  -> [q : Texts, resolve : BOOLEAN]

\* route_id! entries
RouteIdTable ==
    { R("get_account", "get", "accounts/{}", Ty("Account")),
      R("followers", "get", "accounts/{}/followers", VecOf("Account")),
      R("following", "get", "accounts/{}/following", VecOf("Account")),
      R("follow", "get", "accounts/{}/follow", Ty("Account")),
      R("unfollow", "get", "accounts/{}/unfollow", Ty("Account")),
      R("block", "get", "accounts/{}/block", Ty("Account")),
      R("unblock", "get", "accounts/{}/unblock", Ty("Account")),
      R("mute", "get", "accounts/{}/mute", Ty("Account")),
      R("unmute", "get", "accounts/{}/unmute", Ty("Account")),
      R("get_notification", "get", "notifications/{}", Ty("Notification")),
      R("get_status", "get", "statuses/{}", Ty("Status")),
      R("get_context", "get", "statuses/{}/context", Ty("Context")),
      R("get_card", "get", "statuses/{}/card", Ty("Card")),
      R("reblogged_by", "get", "statuses/{}/reblogged_by", VecOf("Account")),
      R("favourited_by", "get", "statuses/{}/favourited_by", VecOf("Account")),
      R("reblog", "post", "statuses/{}/reblog", Ty("Status")),
      R("unreblog", "post", "statuses/{}/unreblog", Ty("Status")),
      R("favourite", "post", "statuses/{}/favourite", Ty("Status")),
      R("unfavourite", "post", "statuses/{}/unfavourite", Ty("Status")),
      R("delete_status", "delete", "statuses/{}", Ty("Empty")) }

\* StatusBuilder payloads
StatusBuilders ==
    {[status |-> "a", visibility |-> NoneStr],
     [status |-> "a", visibility |-> Some("public")]}

----------------------------------------------------------------------------
(* State machine *)

NoArgs == <<>>

\* givenToken records the token handed to the constructor of the client
Init ==
    /\ client = NoClient
    /\ givenToken = ""
    /\ pc = "idle"
    /\ op = ""
    /\ args = NoArgs
    /\ request = NoRequest
    /\ response = NoResponse
    /\ result = Ok(<<>>)

\* an endpoint function returns r to its caller
Returns(name, a, r, resp) ==
    /\ pc' = "returned"
    /\ op' = name
    /\ args' = a
    /\ request' = r.request
    /\ response' = IF r.request.method = "" THEN NoResponse ELSE resp
    /\ result' = r.result
    /\ UNCHANGED <<client, givenToken>>

\* Mastodon::from_registration
FromRegistration(base, client_id, client_secret, redirect, token) ==
    /\ pc = "idle"
    /\ LET data == [base |-> base, client_id |-> client_id,
                    client_secret |-> client_secret, redirect |-> redirect,
                    token |-> token]
           headers == HeadersSet(HeadersNew, "Authorization",
                                 AuthorizationBearer(data.token))
       IN  client' = [built |-> TRUE, headers |-> headers, data |-> data]
    /\ givenToken' = token
    /\ pc' = "returned"
    /\ op' = "from_registration"
    /\ args' = NoArgs
    /\ request' = NoRequest
    /\ response' = NoResponse
    /\ result' = Ok(<<>>)

\* Mastodon::from_data; Client::new()? may fail
FromData(data, clientNewOk) ==
    /\ pc = "idle"
    /\ LET headers == HeadersSet(HeadersNew, "Authorization",
                                 AuthorizationBearer(data.token))
       IN  IF clientNewOk
           THEN /\ client' = [built |-> TRUE, headers |-> headers, data |-> data]
                /\ givenToken' = data.token
                /\ result' = Ok(<<>>)
           ELSE /\ UNCHANGED <<client, givenToken>>
                /\ result' = Err(Http("Client::new"))
    /\ pc' = "returned"
    /\ op' = "from_data"
    /\ args' = NoArgs
    /\ request' = NoRequest
    /\ response' = NoResponse

\* the caller assigns the public field data of a client it owns
SetData(data) ==
    /\ pc = "idle"
    /\ client.built
    /\ client' = [client EXCEPT !.data = data]
    /\ UNCHANGED givenToken
    /\ pc' = "returned"
    /\ op' = "set_data"
    /\ args' = NoArgs
    /\ request' = NoRequest
    /\ response' = NoResponse
    /\ result' = Ok(<<>>)

\* the blocking call is over: the caller has its Result and may call again
TakeResult ==
    /\ pc = "returned"
    /\ pc' = "idle"
    /\ op' = ""
    /\ args' = NoArgs
    /\ request' = NoRequest
    /\ response' = NoResponse
    /\ result' = Ok(<<>>)
    /\ UNCHANGED <<client, givenToken>>

\* pub fn $name(&self) of route!
RouteCall(e, resp) ==
    /\ pc = "idle"
    /\ client.built
    /\ Returns(e.name, NoArgs,
               Methods(client, e.method, route(client, "/api/v1/" \o e.url), e.ret,
                       resp),
               resp)

\* pub fn $name(&self, $($param: $typ,)*) of route!
RoutePost(self, e, a, resp) ==
    LET form_data == [k \in Range(e.params) |-> a[k]]
        r == SendAndRead(BuildRequest("post", route(self, "/api/v1/" \o e.url),
                                      self.headers, FormBody(form_data)),
                         resp)
    IN  [request |-> r.request,
         result |-> IF r.failed THEN r.result ELSE RoutePostDecode(e.ret, r.result.v)]

RoutePostCall(e, a, resp) ==
    /\ pc = "idle"
    /\ client.built
    /\ Returns(e.name, a, RoutePost(client, e, a, resp), resp)

\* pub fn $name(&self, id: u64) of route_id!
RouteIdCall(e, id, resp) ==
    /\ pc = "idle"
    /\ client.built
    /\ Returns(e.name, [id |-> id],
               Methods(client, e.method,
                       route(client, Format("/api/v1/" \o e.url, ToString(id))),
                       e.ret, resp),
               resp)

\* Mastodon::new_status
new_status(self, status, resp) ==
    LET r == SendAndRead(BuildRequest("post", route(self, "/api/v1/statuses"),
                                      self.headers, JsonBody(status)),
                         resp)
    IN  [request |-> r.request,
         result |-> IF r.failed THEN r.result ELSE NewStatusDecode(r.result.v)]

NewStatus(status, resp) ==
    /\ pc = "idle"
    /\ client.built
    /\ Returns("new_status", [status |-> status], new_status(client, status, resp), resp)

\* Mastodon::get_public_timeline
get_public_timeline(self, local) ==
    LET url == route(self, "/api/v1/timelines/public")
    IN  IF local THEN url \o "?local=1" ELSE url

GetPublicTimeline(local, resp) ==
    /\ pc = "idle"
    /\ client.built
    /\ Returns("get_public_timeline", [local |-> local],
               Methods(client, "get", get_public_timeline(client, local),
                       VecOf("Status"), resp),
               resp)

\* Mastodon::get_tagged_timeline
get_tagged_timeline(self, hashtag, local) ==
    LET url == route(self, "/api/v1/timelines/tag/") \o hashtag
    IN  IF local THEN url \o "?local=1" ELSE url

GetTaggedTimeline(hashtag, local, resp) ==
    /\ pc = "idle"
    /\ client.built
    /\ Returns("get_tagged_timeline", [hashtag |-> hashtag, local |-> local],
               Methods(client, "get", get_tagged_timeline(client, hashtag, local),
                       VecOf("Status"), resp),
               resp)

\* params pushed whatever the flag, false as "0"
StatusesParams_SendsFalse(only_media, exclude_replies, since_id) ==
    <<(<<"only_media", IF only_media THEN "1" ELSE "0">>)>>
    \o <<(<<"exclude_replies", IF exclude_replies THEN "1" ELSE "0">>)>>
    \o (IF since_id.some THEN <<(<<"since_id", ToString(since_id.v)>>)>> ELSE <<>>)

\* the params vector built by Mastodon::statuses
StatusesParams(only_media, exclude_replies, since_id) ==
    (IF only_media THEN <<(<<"only_media", "1">>)>> ELSE <<>>)
    \o (IF exclude_replies THEN <<(<<"exclude_replies", "1">>)>> ELSE <<>>)
    \o (IF since_id.some THEN <<(<<"since_id", ToString(since_id.v)>>)>> ELSE <<>>)

\* Url::parse_with_params(input, params) then into_string.  emptyQuery is
\* what the url crate leaves behind when params is empty: "" or "?".
ParseWithParams(input, params, emptyQuery) ==
    IF ~IsAbsoluteUrl(input) THEN Err(UrlError("relative URL without a base"))
    ELSE IF Len(params) = 0 THEN Ok(input \o emptyQuery)
    ELSE Ok(input \o "?" \o SerializePairs(params))

\* Mastodon::statuses
statuses(self, id, only_media, exclude_replies, since_id, emptyQuery, resp) ==
    LET params == StatusesParams(only_media, exclude_replies, since_id)
        url == ParseWithParams(
                   Format(Format("{}/api/v1/accounts/{}/statuses", self.data.base),
                          ToString(id)),
                   params, emptyQuery)
    IN  IF url.tag = "Err" THEN [request |-> NoRequest, result |-> url]
        ELSE Methods(self, "get", url.v, VecOf("Status"), resp)

Statuses(id, only_media, exclude_replies, since_id, emptyQuery, resp) ==
    /\ pc = "idle"
    /\ client.built
    /\ Returns("statuses",
               [id |-> id, only_media |-> only_media,
                exclude_replies |-> exclude_replies, since_id |-> since_id],
               statuses(client, id, only_media, exclude_replies, since_id,
                        emptyQuery, resp),
               resp)

\* the for loop of Mastodon::relationships
RECURSIVE RelationshipsLoop(_, _)
RelationshipsLoop(url, ids) ==
    IF Len(ids) = 0 THEN url
    ELSE RelationshipsLoop(url \o "id[]=" \o ToString(Head(ids)) \o "&", Tail(ids))

\* relationships without the single-id branch
relationships_AlwaysArray(self, ids) ==
    StringPop(RelationshipsLoop(route(self, "/api/v1/accounts/relationships?"), ids))

\* Mastodon::relationships
relationships(self, ids) ==
    LET url == route(self, "/api/v1/accounts/relationships?")
    IN  IF Len(ids) = 1 THEN url \o "id=" \o ToString(ids[1])
        ELSE StringPop(RelationshipsLoop(url, ids))

Relationships(ids, resp) ==
    /\ pc = "idle"
    /\ client.built
    /\ Returns("relationships", [ids |-> ids],
               Methods(client, "get", relationships(client, ids),
                       VecOf("Relationship"), resp),
               resp)

\* Mastodon::search_accounts
search_accounts(self, query) ==
    Format(Format("{}/api/v1/accounts/search?q={}", self.data.base), query)

SearchAccounts(query, resp) ==
    /\ pc = "idle"
    /\ client.built
    /\ Returns("search_accounts", [query |-> query],
               Methods(client, "get", search_accounts(client, query),
                       VecOf("Account"), resp),
               resp)

\* Mastodon::instance
Instance(resp) ==
    /\ pc = "idle"
    /\ client.built
    /\ Returns("instance", NoArgs,
               Methods(client, "get", route(client, "/api/v1/instance"),
                       Ty("Instance"), resp),
               resp)

Next ==
    \/ \E d \in DataValues : FromRegistration(d.base, d.client_id, d.client_secret,
                                              d.redirect, d.token)
    \/ \E d \in DataValues, b \in BOOLEAN : FromData(d, b)
    \/ \E d \in DataValues : SetData(d)
    \/ TakeResult
    \/ \E e \in RouteTable, resp \in Responses : RouteCall(e, Response(resp))
    \/ \E e \in RoutePostTable, resp \in Responses :
          \E a \in PostInputs(e.name) : RoutePostCall(e, a, Response(resp))
    \/ \E e \in RouteIdTable, id \in IdValues, resp \in Responses :
          RouteIdCall(e, id, Response(resp))
    \/ \E st \in StatusBuilders, resp \in Responses : NewStatus(st, Response(resp))
    \/ \E local \in BOOLEAN, resp \in Responses : GetPublicTimeline(local, Response(resp))
    \/ \E hashtag \in Texts, local \in BOOLEAN, resp \in Responses :
          GetTaggedTimeline(hashtag, local, Response(resp))
    \/ \E id \in IdValues, only_media \in BOOLEAN, exclude_replies \in BOOLEAN,
          since_id \in SinceValues, emptyQuery \in {"", "?"}, resp \in Responses :
          Statuses(id, only_media, exclude_replies, since_id, emptyQuery, Response(resp))
    \/ \E ids \in IdLists, resp \in Responses : Relationships(ids, Response(resp))
    \/ \E query \in Texts, resp \in Responses : SearchAccounts(query, Response(resp))
    \/ \E resp \in Responses : Instance(Response(resp))

Spec == Init /\ [][Next]_vars

TypeOK ==
    /\ pc \in {"idle", "returned"}
    /\ client.built \in BOOLEAN
    /\ result.tag \in {"Ok", "Err"}

----------------------------------------------------------------------------
(* The endpoint catalog as the specification states it: method, path       *)
(* before and after the id, request body encoding and response entity.     *)

Entry(method, pre, suf, body, ret) ==
    [method |-> method, pre |-> pre, suf |-> suf, body |-> body, ret |-> ret]

Catalog(name) ==
    CASE name = "verify" -> Entry("get", "accounts/verify_credentials", "", "none", Ty("Account"))
      [] name = "blocks" -> Entry("get", "blocks", "", "none", VecOf("Account"))
      [] name = "follow_requests" -> Entry("get", "follow_requests", "", "none", VecOf("Account"))
      [] name = "mutes" -> Entry("get", "mutes", "", "none", VecOf("Account"))
      [] name = "notifications" -> Entry("get", "notifications", "", "none", VecOf("Notification"))
      [] name = "reports" -> Entry("get", "reports", "", "none", VecOf("Report"))
      [] name = "get_home_timeline" -> Entry("get", "timelines/home", "", "none", VecOf("Status"))
      [] name = "get_public_timeline" -> Entry("get", "timelines/public", "", "none", VecOf("Status"))
      [] name = "get_tagged_timeline" -> Entry("get", "timelines/tag/", "", "none", VecOf("Status"))
      [] name = "get_account" -> Entry("get", "accounts/", "", "none", Ty("Account"))
      [] name = "followers" -> Entry("get", "accounts/", "/followers", "none", VecOf("Account"))
      [] name = "following" -> Entry("get", "accounts/", "/following", "none", VecOf("Account"))
      [] name = "statuses" -> Entry("get", "accounts/", "/statuses", "none", VecOf("Status"))
      [] name = "relationships" -> Entry("get", "accounts/relationships", "", "none", VecOf("Relationship"))
      [] name = "search_accounts" -> Entry("get", "accounts/search", "", "none", VecOf("Account"))
      [] name = "instance" -> Entry("get", "instance", "", "none", Ty("Instance"))
      [] name = "follow" -> Entry("get", "accounts/", "/follow", "none", Ty("Account"))
      [] name = "unfollow" -> Entry("get", "accounts/", "/unfollow", "none", Ty("Account"))
      [] name = "block" -> Entry("get", "accounts/", "/block", "none", Ty("Account"))
      [] name = "unblock" -> Entry("get", "accounts/", "/unblock", "none", Ty("Account"))
      [] name = "mute" -> Entry("get", "accounts/", "/mute", "none", Ty("Account"))
      [] name = "unmute" -> Entry("get", "accounts/", "/unmute", "none", Ty("Account"))
      [] name = "get_notification" -> Entry("get", "notifications/", "", "none", Ty("Notification"))
      [] name = "get_status" -> Entry("get", "statuses/", "", "none", Ty("Status"))
      [] name = "get_context" -> Entry("get", "statuses/", "/context", "none", Ty("Context"))
      [] name = "get_card" -> Entry("get", "statuses/", "/card", "none", Ty("Card"))
      [] name = "reblogged_by" -> Entry("get", "statuses/", "/reblogged_by", "none", VecOf("Account"))
      [] name = "favourited_by" -> Entry("get", "statuses/", "/favourited_by", "none", VecOf("Account"))
      [] name = "allow_follow_request" -> Entry("post", "accounts/follow_requests/authorize", "", "form", Ty("Empty"))
      [] name = "reject_follow_request" -> Entry("post", "accounts/follow_requests/reject", "", "form", Ty("Empty"))
      [] name = "follows" -> Entry("post", "follows", "", "form", Ty("Account"))
      [] name = "clear_notifications" -> Entry("post", "notifications/clear", "", "none", Ty("Empty"))
      [] name = "media" -> Entry("post", "media", "", "multipart", Ty("Attachment"))
      [] name = "report" -> Entry("post", "reports", "", "form", Ty("Report"))
      [] name = "search" -> Entry("post", "search", "", "form", Ty("SearchResult"))
      [] name = "reblog" -> Entry("post", "statuses/", "/reblog", "none", Ty("Status"))
      [] name = "unreblog" -> Entry("post", "statuses/", "/unreblog", "none", Ty("Status"))
      [] name = "favourite" -> Entry("post", "statuses/", "/favourite", "none", Ty("Status"))
      [] name = "unfavourite" -> Entry("post", "statuses/", "/unfavourite", "none", Ty("Status"))
      [] name = "delete_status" -> Entry("delete", "statuses/", "", "none", Ty("Empty"))
      [] name = "new_status" -> Entry("post", "statuses", "", "json", Ty("Status"))

\* an endpoint operation has returned to its caller
EndpointReturned ==
    pc = "returned" /\ op \notin {"", "from_data", "from_registration", "set_data"}

\* the operation sent its request
Sent == EndpointReturned /\ request.method # ""

\* the operation read a whole response body
BodyRead == Sent /\ response.t = "body"

\* the body is a JSON object {error: string, error_description?: string or null}
IsErrorEnvelope(b) ==
    /\ b.t = "obj"
    /\ "error" \in DOMAIN b.v
    /\ b.v["error"].t = "str"
    /\ "error_description" \in DOMAIN b.v =>
           b.v["error_description"].t \in {"str", "null"}

\* the body is {"error":"Record not found"}
IsRecordNotFound(b) ==
    /\ b.t = "obj"
    /\ DOMAIN b.v = {"error"}
    /\ b.v["error"].t = "str"
    /\ b.v["error"].v = "Record not found"

ExpectedEntity == DecodeEntity(Catalog(op).ret, response.b)

\* C1: whenever the body decodes as the operation's expected entity, the
\* operation returns that entity, also when the body is an error envelope.
C1_SuccessWins ==
    (BodyRead /\ ExpectedEntity.ok) =>
        (result.tag = "Ok" /\ result.v = ExpectedEntity.v)

C1_Witness ==
    /\ BodyRead
    /\ op = "delete_status"
    /\ IsRecordNotFound(response.b)
    /\ DecodeApiError(response.b).ok
    /\ result.tag = "Ok"

\* C2: a body that does not decode as the expected entity but is an error
\* envelope makes the operation return the API error carrying its members;
\* {"error":"Record not found"} gives ApiError{"Record not found", None}.
C2_ErrorEnvelope ==
    (BodyRead /\ ~ExpectedEntity.ok /\ IsErrorEnvelope(response.b)) =>
        /\ result.tag = "Err"
        /\ result.v.kind = "Api"
        /\ result.v.detail.error = response.b.v["error"].v
        /\ result.v.detail.error_description =
               (IF "error_description" \in DOMAIN response.b.v
                   /\ response.b.v["error_description"].t = "str"
                THEN Some(response.b.v["error_description"].v)
                ELSE NoneStr)
        /\ IsRecordNotFound(response.b) =>
               result = Err(Api([error |-> "Record not found",
                                 error_description |-> NoneStr]))

C2_Witness ==
    /\ BodyRead
    /\ op = "verify"
    /\ IsRecordNotFound(response.b)
    /\ result.tag = "Err"
    /\ result.v.kind = "Api"

\* C3: a body that decodes neither as the expected entity nor as an ApiError
\* makes the operation return SERDE carrying the error of the first decode,
\* the one of the expected entity.
C3_SerdeCarriesFirstError ==
    (BodyRead /\ ~ExpectedEntity.ok /\ ~DecodeApiError(response.b).ok) =>
        /\ result.tag = "Err"
        /\ result.v.kind = "Serde"
        /\ result.v.detail = ExpectedEntity.v

\* C4: an endpoint operation on a client whose bundle has an empty token
\* fails with ACCESS_TOKEN_REQUIRED and sends no request.
C4_EmptyTokenRejected ==
    (EndpointReturned /\ client.data.token = "") =>
        /\ result.tag = "Err"
        /\ result.v.kind = "AccessTokenRequired"
        /\ request.method = ""

AuthorizationHeaders(req) ==
    {i \in DOMAIN req.headers : req.headers[i].name = "Authorization"}

\* C5: every request sent carries exactly one Authorization header, and it
\* is "Bearer " followed by the token given when the client was constructed.
C5_OneBearerHeader ==
    Sent =>
        /\ Cardinality(AuthorizationHeaders(request)) = 1
        /\ \A i \in AuthorizationHeaders(request) :
               request.headers[i].value = "Bearer " \o givenToken

C5_Witness ==
    /\ Sent
    /\ op = "new_status"
    /\ givenToken = "tok"
    /\ client.data.token = "tok2"
    /\ Len(request.headers) = 2

----------------------------------------------------------------------------
(* URLs as the specification states them *)

IdOps ==
    {"get_account", "followers", "following", "statuses", "follow", "unfollow",
     "block", "unblock", "mute", "unmute", "get_notification", "get_status",
     "get_context", "get_card", "reblogged_by", "favourited_by", "reblog",
     "unreblog", "favourite", "unfavourite", "delete_status"}

\* percent-encoding of a path segment: '&' and '=' may stand in a path
PathEncodeChar(c) ==
    CASE c = " " -> "%20"
      [] c = "?" -> "%3F"
      [] c = "#" -> "%23"
      [] c = "/" -> "%2F"
      [] OTHER   -> c

RECURSIVE PathEncode(_)
PathEncode(s) ==
    IF Len(s) = 0 THEN "" ELSE PathEncodeChar(Char(s, 1)) \o PathEncode(Tail(s))

\* id[]=v1&id[]=v2&...&id[]=vN for a non-empty list
RECURSIVE IdsQuery(_)
IdsQuery(ids) ==
    IF Len(ids) = 1 THEN "id[]=" \o ToString(ids[1])
    ELSE IdsQuery(SubSeq(ids, 1, Len(ids) - 1)) \o "&id[]=" \o ToString(ids[Len(ids)])

ExpectedPath ==
    Catalog(op).pre
    \o (IF op \in IdOps THEN ToString(args.id) ELSE "")
    \o (IF op = "get_tagged_timeline" THEN PathEncode(args.hashtag) ELSE "")
    \o Catalog(op).suf

\* name=value of the query parameters that are present, joined by '&'
RECURSIVE JoinQuery(_)
JoinQuery(pairs) ==
    IF Len(pairs) = 0 THEN ""
    ELSE pairs[1] \o (IF Len(pairs) = 1 THEN "" ELSE "&" \o JoinQuery(Tail(pairs)))

StatusesQuery ==
    JoinQuery((IF args.only_media THEN <<"only_media=1">> ELSE <<>>)
              \o (IF args.exclude_replies THEN <<"exclude_replies=1">> ELSE <<>>)
              \o (IF args.since_id.some
                  THEN <<"since_id=" \o ToString(args.since_id.v)>> ELSE <<>>))

\* the query strings the specification allows for the call, '?' included
ExpectedQueries ==
    CASE op \in {"get_public_timeline", "get_tagged_timeline"} ->
            {IF args.local THEN "?local=1" ELSE ""}
      [] op = "statuses" ->
            IF StatusesQuery = "" THEN {"", "?"} ELSE {"?" \o StatusesQuery}
      [] op = "relationships" ->
            {IF Len(args.ids) = 0 THEN ""
             ELSE IF Len(args.ids) = 1 THEN "?id=" \o ToString(args.ids[1])
             ELSE "?" \o IdsQuery(args.ids)}
      [] op = "search_accounts" -> {"?q=" \o FormUrlEncode(args.query)}
      [] OTHER -> {""}

ExpectedUrls ==
    {client.data.base \o "/api/v1/" \o ExpectedPath \o q : q \in ExpectedQueries}

\* C6: the URL an operation requests is base + "/api/v1/" + path, with the id
\* substituted and the query parameters appended in URL-encoded form.
C6_UrlMatchesCatalog == Sent => request.url \in ExpectedUrls

\* the requested URL after the base
Target == SubSeq(request.url, Len(client.data.base) + 1, Len(request.url))

\* C7: a boolean query parameter that is false does not appear in the URL,
\* one that is true appears as name=1; an absent since_id is omitted and a
\* present one appears as since_id=<value>.
C7_BooleanParameters ==
    /\ (Sent /\ op = "get_public_timeline") =>
           IF args.local
           THEN request.url = client.data.base \o "/api/v1/timelines/public?local=1"
           ELSE ~Contains(Target, "local")
    /\ (Sent /\ op = "get_tagged_timeline") =>
           IF args.local
           THEN EndsWith(request.url, "?local=1")
                /\ Occurrences(Target, "local") = 1
           ELSE ~Contains(Target, "local")
    /\ (Sent /\ op = "statuses") =>
           /\ IF args.only_media
              THEN Occurrences(Target, "only_media") = 1
                   /\ Contains(Target, "only_media=1")
              ELSE ~Contains(Target, "only_media")
           /\ IF args.exclude_replies
              THEN Occurrences(Target, "exclude_replies") = 1
                   /\ Contains(Target, "exclude_replies=1")
              ELSE ~Contains(Target, "exclude_replies")
           /\ IF args.since_id.some
              THEN EndsWith(request.url, "since_id=" \o ToString(args.since_id.v))
                   /\ Occurrences(Target, "since_id") = 1
              ELSE ~Contains(Target, "since_id")
           /\ ~Contains(Target, "=0")
           /\ (args.id = 7 /\ ~args.only_media /\ args.exclude_replies
               /\ args.since_id = Some(42)) =>
                  request.url = client.data.base
                      \o "/api/v1/accounts/7/statuses?exclude_replies=1&since_id=42"

C7_Witness ==
    /\ Sent
    /\ op = "statuses"
    /\ args.id = 7
    /\ ~args.only_media
    /\ args.exclude_replies
    /\ args.since_id = Some(42)
    /\ request.url =
           "https://example.social/api/v1/accounts/7/statuses?exclude_replies=1&since_id=42"

\* C8: relationships puts the ids in the query string in input order: one id
\* as id=v, N > 1 ids as id[]=v1&...&id[]=vN with no leading or trailing '&'.
C8_RelationshipsQuery ==
    (Sent /\ op = "relationships" /\ Len(args.ids) >= 1) =>
        request.url = client.data.base \o "/api/v1/accounts/relationships?"
                      \o (IF Len(args.ids) = 1 THEN "id=" \o ToString(args.ids[1])
                          ELSE IdsQuery(args.ids))

C8_Witness ==
    /\ Sent
    /\ op = "relationships"
    /\ args.ids = <<3, 4>>
    /\ request.url = "https://example.social/api/v1/accounts/relationships?id[]=3&id[]=4"

\* the parameters the catalog names for the form-encoded POST operations
CatalogParams(name) ==
    CASE name \in {"allow_follow_request", "reject_follow_request"} -> {"id"}
      [] name = "follows" -> {"uri"}
      [] name = "report"  -> {"account_id", "status_ids", "comment"}
      [] name = "search"  -> {"q", "resolve"}
      [] OTHER            -> {}

\* C9: every operation encodes its body as the catalog binds it: form for
\* the POSTs with parameters, JSON for new_status, multipart for media, and
\* no body for GET and DELETE.
C9_BodyEncoding ==
    Sent =>
        /\ request.body.kind = Catalog(op).body
        /\ request.body.kind = "form" => DOMAIN request.body.data = CatalogParams(op)
        /\ request.body.kind = "json" => request.body.data = args.status
        /\ request.method \in {"get", "delete"} => request.body.kind = "none"

\* C10: relationships with an empty list does not fail before sending and
\* GETs exactly base + "/api/v1/accounts/relationships"; for every list the
\* requested URL ends neither in '&' nor in '?'.
C10_RelationshipsEmpty ==
    (EndpointReturned /\ op = "relationships") =>
        /\ IsAbsoluteUrl(client.data.base) =>
               /\ Sent
               /\ request.method = "get"
               /\ result.tag = "Err" => result.v.kind \in {"Api", "Serde", "Http", "Io"}
        /\ Sent => LastChar(request.url) \notin {"&", "?"}
        /\ (Sent /\ Len(args.ids) = 0) =>
               request.url = client.data.base \o "/api/v1/accounts/relationships"

C10_Witness ==
    /\ Sent
    /\ op = "relationships"
    /\ Len(args.ids) = 0
    /\ request.url = "https://example.social/api/v1/accounts/relationships"
    /\ result.tag = "Ok"

====
